---- MODULE Spec2Model ----
(***************************************************************************)
(* Model of the k8s-job-operator: the HTTP handlers get_task and           *)
(* invoke_task (with create_job_for_task, the Job builder), the Task       *)
(* store and the Job API of the cluster they talk to, and the controller   *)
(* loop that runs reconcile_task / error_policy for every Task.            *)
(***************************************************************************)
EXTENDS Integers, Sequences, FiniteSets, TLC

VARIABLES
    tasks,        \* the Task store of the cluster: key -> Option<Task>
    jobs,         \* the Jobs that exist in the cluster (created manifests)
    now,          \* chrono::Utc::now().timestamp(), in seconds
    reqs,         \* the HTTP requests: slot -> position and locals of the handler
    queue,        \* the controller's scheduler: key -> "none" | "queued" | "waiting"
    requeue_after,\* key -> Option<seconds>, the delay of the pending requeue
    outcome       \* key -> "none" | "ok" | "err", how the reconcile that asked for it ended

vars == <<tasks, jobs, now, reqs, queue, requeue_after, outcome>>

----------------------------------------------------------------------------
(* Bounds of the model *)

MaxRequests == 2
MaxTicks == 1
StartTime == 9
MaxEnvLen == 3

----------------------------------------------------------------------------
(* Option<T>: None is the empty sequence, Some(v) the one-element sequence *)

None == <<>>
Some(v) == <<v>>
IsSome(o) == o # None
Unwrap(o) == o[1]

(* i64 -> decimal text, as format!("{}") prints it *)
Digit(d) == <<"0", "1", "2", "3", "4", "5", "6", "7", "8", "9">>[d + 1]

RECURSIVE DecNat(_)
DecNat(n) == IF n < 10 THEN Digit(n) ELSE DecNat(n \div 10) \o Digit(n % 10)

Dec(n) == IF n < 0 THEN "-" \o DecNat(0 - n) ELSE DecNat(n)

(* BTreeMap<String, String>: a function on its keys; insert overwrites *)
EmptyMap == <<>>
Insert(m, k, v) == [x \in (DOMAIN m) \cup {k} |-> IF x = k THEN v ELSE m[x]]
IsEmptyMap(m) == DOMAIN m = {}

----------------------------------------------------------------------------
(* The Task data model (types.rs) *)

default_pull_policy == "IfNotPresent"
default_handler == "handler"
default_timeout == 300

ResourceList(cpu, memory) == [cpu |-> cpu, memory |-> memory]
TaskResources(limits, requests) == [limits |-> limits, requests |-> requests]
TaskEnvVar(name, value) == [name |-> name, value |-> value]

TaskSpec(image, policy, resources, env, handler, timeout) ==
    [image |-> image, image_pull_policy |-> policy, resources |-> resources,
     env |-> env, handler |-> handler, timeout |-> timeout]

Task(namespace, name, spec) ==
    [metadata |-> [name |-> name, namespace |-> namespace],
     spec |-> spec,
     status |-> None]

name_any(task) == task.metadata.name

(* serde_json::Value, as far as the requests of the model use it *)
JNull == [tag |-> "null", num |-> 0, members |-> <<>>]
JNum(n) == [tag |-> "num", num |-> n, members |-> <<>>]
JObj(members) == [tag |-> "obj", num |-> 0, members |-> members]

RECURSIVE JoinMembers(_, _)
(* serde_json::to_string: compact JSON text, the keys of an object in their
   order; it does not fail on a serde_json::Value, so the SerdeError of
   create_job_for_task is not reached *)
RECURSIVE to_string(_)
to_string(v) ==
    CASE v.tag = "null" -> "null"
      [] v.tag = "num" -> Dec(v.num)
      [] v.tag = "obj" -> "{" \o JoinMembers(v.members, 1) \o "}"

JoinMembers(ms, i) ==
    IF i > Len(ms) THEN ""
    ELSE (IF i > 1 THEN "," ELSE "")
         \o "\"" \o ms[i][1] \o "\":" \o to_string(ms[i][2])
         \o JoinMembers(ms, i + 1)

InvokeRequest(kwargs, request_id) ==
    [kwargs |-> kwargs, request_id |-> request_id, async_mode |-> None]

(* uuid::Uuid::new_v4().to_string(): the identifier drawn by the n-th call of
   request i; fresh identifiers never repeat, so each call has its own *)
Uuid(i, n) == "uuid-" \o Dec(i) \o "-" \o Dec(n)

----------------------------------------------------------------------------
(* OperatorError and its HTTP rendering (main.rs) *)

ApiNotFound == [code |-> 404, reason |-> "NotFound"]
ApiAlreadyExists == [code |-> 409, reason |-> "AlreadyExists"]
ApiRejected == [code |-> 500, reason |-> "InternalError"]

kube_to_string(e) == "ApiError: " \o e.reason \o " (" \o Dec(e.code) \o ")"

TaskNotFound(msg) == [kind |-> "TaskNotFound", msg |-> msg]
KubeError(e) == [kind |-> "KubeError", msg |-> kube_to_string(e)]

Display(err) ==
    CASE err.kind = "KubeError" -> "Kubernetes error: " \o err.msg
      [] err.kind = "SerdeError" -> "Serialization error: " \o err.msg
      [] err.kind = "TaskNotFound" -> "Task not found: " \o err.msg
      [] err.kind = "ConfigError" -> "Configuration error: " \o err.msg
      [] err.kind = "InvalidRequest" -> "Invalid request: " \o err.msg

StatusCode(err) ==
    CASE err.kind = "TaskNotFound" -> 404
      [] err.kind = "InvalidRequest" -> 400
      [] err.kind = "ConfigError" -> 500
      [] err.kind = "KubeError" -> 500
      [] err.kind = "SerdeError" -> 400

into_response(err) ==
    [status |-> StatusCode(err),
     body |-> [error |-> err.msg, details |-> Some(Display(err))]]

Ok(v) == [ok |-> TRUE, value |-> v, error |-> None]
Err(e) == [ok |-> FALSE, value |-> None, error |-> Some(e)]

----------------------------------------------------------------------------
(* create_job_for_task: the Job builder *)

(* A resolve that ignores the request id of the request *)
resolve_request_id_fresh(request, fresh) == fresh

resolve_request_id(request, fresh) ==
    IF IsSome(request.request_id) THEN Unwrap(request.request_id) ELSE fresh

(* A name without the timestamp *)
job_name_no_timestamp(task, ts) == name_any(task)

job_name(task, ts) == name_any(task) \o "-" \o Dec(ts)

EnvVar(name, value) == [name |-> name, value |-> Some(value)]

(* An environment that drops the declared entries named like a fixed one *)
env_vars_dedup(task, request, request_id) ==
    LET NotFixed(e) == e.name \notin {"LAMBDA_HANDLER", "LAMBDA_TASK_NAME",
                                      "LAMBDA_REQUEST_ID", "LAMBDA_KWARGS"}
        declared == SelectSeq(task.spec.env, NotFixed)
    IN  << EnvVar("LAMBDA_HANDLER", task.spec.handler),
           EnvVar("LAMBDA_TASK_NAME", name_any(task)),
           EnvVar("LAMBDA_REQUEST_ID", request_id),
           EnvVar("LAMBDA_KWARGS", to_string(request.kwargs)) >>
        \o [i \in 1..Len(declared) |-> EnvVar(declared[i].name, declared[i].value)]

env_vars(task, request, request_id) ==
    << EnvVar("LAMBDA_HANDLER", task.spec.handler),
       EnvVar("LAMBDA_TASK_NAME", name_any(task)),
       EnvVar("LAMBDA_REQUEST_ID", request_id),
       EnvVar("LAMBDA_KWARGS", to_string(request.kwargs)) >>
    \o [i \in 1..Len(task.spec.env) |->
            EnvVar(task.spec.env[i].name, task.spec.env[i].value)]

Quantity(s) == s

quantities(list) ==
    LET withCpu == IF IsSome(list.cpu)
                   THEN Insert(EmptyMap, "cpu", Quantity(Unwrap(list.cpu)))
                   ELSE EmptyMap
    IN  IF IsSome(list.memory)
        THEN Insert(withCpu, "memory", Quantity(Unwrap(list.memory)))
        ELSE withCpu

(* Resource requirements that are built even when the Task sets no field *)
resources_always_some(task) ==
    LET limits == quantities(task.spec.resources.limits)
        requests == quantities(task.spec.resources.requests)
    IN  Some([limits |-> IF IsEmptyMap(limits) THEN None ELSE Some(limits),
              requests |-> IF IsEmptyMap(requests) THEN None ELSE Some(requests)])

resources(task) ==
    LET limits == quantities(task.spec.resources.limits)
        requests == quantities(task.spec.resources.requests)
    IN  IF IsEmptyMap(limits) /\ IsEmptyMap(requests)
        THEN None
        ELSE Some([limits |-> IF IsEmptyMap(limits) THEN None ELSE Some(limits),
                   requests |-> IF IsEmptyMap(requests) THEN None ELSE Some(requests)])

container(task, request, request_id) ==
    [name |-> "task",
     image |-> Some(task.spec.image),
     image_pull_policy |-> Some(task.spec.image_pull_policy),
     env |-> Some(env_vars(task, request, request_id)),
     resources |-> resources(task)]

labels(task, request_id) ==
    Insert(Insert(Insert(EmptyMap, "app", "lambda-task"),
                  "task", name_any(task)),
           "request-id", request_id)

Job(task, request, namespace, request_id, ts) ==
    [metadata |-> [name |-> Some(job_name(task, ts)),
                   namespace |-> Some(namespace),
                   labels |-> Some(labels(task, request_id))],
     spec |-> Some(
        [template |->
            [metadata |-> Some([labels |-> Some(labels(task, request_id))]),
             spec |-> Some([containers |-> <<container(task, request, request_id)>>,
                            restart_policy |-> Some("Never"),
                            active_deadline_seconds |-> Some(task.spec.timeout)])],
         backoff_limit |-> Some(0),
         ttl_seconds_after_finished |-> Some(3600)])]

InvokeResponse(request_id, name, namespace, task_name) ==
    [request_id |-> request_id, job_name |-> name, status |-> "accepted",
     namespace |-> namespace, task_name |-> task_name]

----------------------------------------------------------------------------
(* The inputs of the model *)

default_namespace == "default"

Namespaces == {default_namespace, "ns1"}
TaskNames == {"echo"}
Keys == Namespaces \X TaskNames

FullSpec ==
    TaskSpec("busybox", "Always",
             TaskResources(ResourceList(Some("500m"), None),
                           ResourceList(None, Some("64Mi"))),
             <<TaskEnvVar("A", "1")>>, "h", 60)

StoreSpecs == {FullSpec}

(* Tasks are applied in the default namespace only: "ns1" stays empty *)
AppliedKeys == {k \in Keys : k[1] = default_namespace}

Kwargs == JObj(<< <<"x", JNum(1)>> >>)
Requests == {InvokeRequest(Kwargs, None), InvokeRequest(Kwargs, Some("req-1"))}

Slots == 1..MaxRequests

----------------------------------------------------------------------------
(* The cluster API, as the handlers see it *)

(* Api<Task>::get: the Task, a 404 when it is absent, or a rejection of the
   call for another reason *)
ApiGet(namespace, name) ==
    (IF IsSome(tasks[<<namespace, name>>])
     THEN {Ok(Unwrap(tasks[<<namespace, name>>]))}
     ELSE {Err(ApiNotFound)})
    \cup {Err(ApiRejected)}

JobExists(job) ==
    \E j \in jobs : /\ j.metadata.namespace = job.metadata.namespace
                    /\ j.metadata.name = job.metadata.name

(* Api<Job>::create: a Job of that name in that namespace is created unless one
   exists (409); the cluster may also reject the call for another reason *)
ApiCreate(job) ==
    (IF JobExists(job) THEN {Err(ApiAlreadyExists)} ELSE {Ok(job)})
    \cup {Err(ApiRejected)}

----------------------------------------------------------------------------
(* The HTTP requests *)

IdleReq ==
    [pc |-> "idle", op |-> "none", namespace |-> "", task_name |-> "",
     request |-> InvokeRequest(JNull, None),
     got |-> None,          \* what Api<Task>::get answered
     task |-> None,         \* let task
     ts |-> None,           \* chrono::Utc::now().timestamp() of let job_name
     job |-> None,          \* let job
     create_calls |-> 0,    \* number of calls of Api<Job>::create
     created |-> None,      \* what Api<Job>::create answered
     result |-> None]       \* what the handler returned

(* Slots are taken in order: which request gets which slot does not matter *)
CanStart(i) == /\ reqs[i].pc = "idle"
               /\ \A j \in Slots : j < i => reqs[j].pc # "idle"

(* get_task: one call of the store, its error passed on by `?` *)
get_task(i, namespace, task_name) ==
    /\ CanStart(i)
    /\ \E r \in ApiGet(namespace, task_name) :
         reqs' = [reqs EXCEPT ![i] =
                    [@ EXCEPT !.pc = "done", !.op = "get_task",
                              !.namespace = namespace, !.task_name = task_name,
                              !.got = Some(r),
                              !.result = Some(IF r.ok THEN Ok(r.value)
                                              ELSE Err(KubeError(Unwrap(r.error))))]]
    /\ UNCHANGED <<tasks, jobs, now, queue, requeue_after, outcome>>

(* An invoke_task that passes the error of the get on, as get_task does *)
invoke_task_unmapped(i, namespace, task_name, request) ==
    /\ CanStart(i)
    /\ \E r \in ApiGet(namespace, task_name) :
         reqs' = [reqs EXCEPT ![i] =
                    IF r.ok
                    THEN [@ EXCEPT !.pc = "got_task", !.op = "invoke",
                                   !.namespace = namespace, !.task_name = task_name,
                                   !.request = request,
                                   !.got = Some(r), !.task = Some(r.value)]
                    ELSE [@ EXCEPT !.pc = "done", !.op = "invoke",
                                   !.namespace = namespace, !.task_name = task_name,
                                   !.request = request,
                                   !.got = Some(r),
                                   !.result = Some(Err(KubeError(Unwrap(r.error))))]]
    /\ UNCHANGED <<tasks, jobs, now, queue, requeue_after, outcome>>

(* invoke_task up to the answer of the store: every error of the get becomes
   TaskNotFound *)
invoke_task(i, namespace, task_name, request) ==
    /\ CanStart(i)
    /\ \E r \in ApiGet(namespace, task_name) :
         reqs' = [reqs EXCEPT ![i] =
                    IF r.ok
                    THEN [@ EXCEPT !.pc = "got_task", !.op = "invoke",
                                   !.namespace = namespace, !.task_name = task_name,
                                   !.request = request,
                                   !.got = Some(r), !.task = Some(r.value)]
                    ELSE [@ EXCEPT !.pc = "done", !.op = "invoke",
                                   !.namespace = namespace, !.task_name = task_name,
                                   !.request = request,
                                   !.got = Some(r),
                                   !.result = Some(Err(TaskNotFound(task_name)))]]
    /\ UNCHANGED <<tasks, jobs, now, queue, requeue_after, outcome>>

invoke_task_default_namespace(i, task_name, request) ==
    invoke_task(i, default_namespace, task_name, request)

(* create_job_for_task up to the call of Api<Job>::create: the request id, the
   name from the clock, the manifest *)
create_job_for_task(i) ==
    /\ reqs[i].pc = "got_task"
    /\ LET r == reqs[i]
           request_id == resolve_request_id(r.request, Uuid(i, 1))
           job == Job(Unwrap(r.task), r.request, r.namespace, request_id, now)
       IN  reqs' = [reqs EXCEPT ![i] = [@ EXCEPT !.pc = "creating",
                                                 !.ts = Some(now),
                                                 !.job = Some(job)]]
    /\ UNCHANGED <<tasks, jobs, now, queue, requeue_after, outcome>>

(* An invoke_task that calls create again after a create that failed *)
invoke_task_respond_retry(i) ==
    /\ reqs[i].pc = "creating"
    /\ LET r == reqs[i]
           job == Unwrap(r.job)
       IN  \E c \in ApiCreate(job) :
             IF c.ok
             THEN /\ jobs' = jobs \cup {job}
                  /\ LET request_id == resolve_request_id(r.request, Uuid(i, 2))
                     IN  reqs' = [reqs EXCEPT ![i] =
                            [@ EXCEPT !.pc = "done",
                                      !.create_calls = @ + 1,
                                      !.created = Some(c),
                                      !.result = Some(Ok(InvokeResponse(
                                            request_id, Unwrap(job.metadata.name),
                                            r.namespace, r.task_name)))]]
             ELSE /\ jobs' = jobs
                  /\ reqs' = [reqs EXCEPT ![i] =
                        IF r.create_calls = 0
                        THEN [@ EXCEPT !.create_calls = @ + 1]
                        ELSE [@ EXCEPT !.pc = "done",
                                       !.create_calls = @ + 1,
                                       !.created = Some(c),
                                       !.result = Some(Err(KubeError(Unwrap(c.error))))]]
    /\ UNCHANGED <<tasks, now, queue, requeue_after, outcome>>

(* The answer of Api<Job>::create and the rest of invoke_task: the error passed
   on by `?`, or the response with the request id resolved again *)
invoke_task_respond(i) ==
    /\ reqs[i].pc = "creating"
    /\ LET r == reqs[i]
           job == Unwrap(r.job)
       IN  \E c \in ApiCreate(job) :
             IF c.ok
             THEN /\ jobs' = jobs \cup {job}
                  /\ LET request_id == resolve_request_id(r.request, Uuid(i, 2))
                     IN  reqs' = [reqs EXCEPT ![i] =
                            [@ EXCEPT !.pc = "done",
                                      !.create_calls = @ + 1,
                                      !.created = Some(c),
                                      !.result = Some(Ok(InvokeResponse(
                                            request_id, Unwrap(job.metadata.name),
                                            r.namespace, r.task_name)))]]
             ELSE /\ jobs' = jobs
                  /\ reqs' = [reqs EXCEPT ![i] =
                        [@ EXCEPT !.pc = "done",
                                  !.create_calls = @ + 1,
                                  !.created = Some(c),
                                  !.result = Some(Err(KubeError(Unwrap(c.error))))]]
    /\ UNCHANGED <<tasks, now, queue, requeue_after, outcome>>

----------------------------------------------------------------------------
(* The cluster: Tasks are applied and deleted by its operators, time passes *)

ApplyTask(k, spec) ==
    /\ tasks[k] # Some(Task(k[1], k[2], spec)) \/ queue[k] # "queued"
    /\ tasks' = [tasks EXCEPT ![k] = Some(Task(k[1], k[2], spec))]
    /\ queue' = [queue EXCEPT ![k] = "queued"]
    /\ requeue_after' = [requeue_after EXCEPT ![k] = None]
    /\ outcome' = [outcome EXCEPT ![k] = "none"]
    /\ UNCHANGED <<jobs, now, reqs>>

DeleteTask(k) ==
    /\ IsSome(tasks[k])
    /\ tasks' = [tasks EXCEPT ![k] = None]
    /\ queue' = [queue EXCEPT ![k] = "none"]
    /\ requeue_after' = [requeue_after EXCEPT ![k] = None]
    /\ outcome' = [outcome EXCEPT ![k] = "none"]
    /\ UNCHANGED <<jobs, now, reqs>>

Tick ==
    /\ now < StartTime + MaxTicks
    /\ now' = now + 1
    /\ UNCHANGED <<tasks, jobs, reqs, queue, requeue_after, outcome>>

----------------------------------------------------------------------------
(* The controller: Controller::new(tasks).run(reconcile_task, error_policy) *)

requeue(seconds) == [requeue_after |-> Some(seconds)]

await_change == [requeue_after |-> None]

(* A reconcile that asks for no requeue *)
reconcile_task_await_change(task) == Ok(await_change)

reconcile_task(task) == Ok(requeue(300))

error_policy(task, error) == requeue(60)

(* One run of the reconciler for the Task of key k, and the controller's use of
   what it returns *)
Reconcile(k) ==
    /\ queue[k] = "queued"
    /\ IsSome(tasks[k])
    /\ LET res == reconcile_task(Unwrap(tasks[k]))
           action == IF res.ok THEN res.value
                     ELSE error_policy(Unwrap(tasks[k]), Unwrap(res.error))
       IN  /\ outcome' = [outcome EXCEPT ![k] = IF res.ok THEN "ok" ELSE "err"]
           /\ requeue_after' = [requeue_after EXCEPT ![k] = action.requeue_after]
           /\ queue' = [queue EXCEPT ![k] =
                           IF IsSome(action.requeue_after) THEN "waiting" ELSE "none"]
    /\ UNCHANGED <<tasks, jobs, now, reqs>>

(* The delay of a requested requeue has passed. The delay is kept as asked
   for; it is not measured against `now`, which only names the Jobs *)
RequeueDue(k) ==
    /\ queue[k] = "waiting"
    /\ queue' = [queue EXCEPT ![k] = "queued"]
    /\ requeue_after' = [requeue_after EXCEPT ![k] = None]
    /\ outcome' = [outcome EXCEPT ![k] = "none"]
    /\ UNCHANGED <<tasks, jobs, now, reqs>>

----------------------------------------------------------------------------

Init ==
    /\ tasks = [k \in Keys |-> None]
    /\ jobs = {}
    /\ now = StartTime
    /\ reqs = [i \in Slots |-> IdleReq]
    /\ queue = [k \in Keys |-> "none"]
    /\ requeue_after = [k \in Keys |-> None]
    /\ outcome = [k \in Keys |-> "none"]

Next ==
    \/ \E i \in Slots, ns \in Namespaces, n \in TaskNames : get_task(i, ns, n)
    \/ \E i \in Slots, ns \in Namespaces, n \in TaskNames, rq \in Requests :
            invoke_task(i, ns, n, rq)
    \/ \E i \in Slots, n \in TaskNames, rq \in Requests :
            invoke_task_default_namespace(i, n, rq)
    \/ \E i \in Slots : create_job_for_task(i)
    \/ \E i \in Slots : invoke_task_respond(i)
    \/ \E k \in AppliedKeys, spec \in StoreSpecs : ApplyTask(k, spec)
    \/ \E k \in Keys : DeleteTask(k)
    \/ Tick
    \/ \E k \in Keys : Reconcile(k)
    \/ \E k \in Keys : RequeueDue(k)

Spec == Init /\ [][Next]_vars

----------------------------------------------------------------------------
(* The Job builder on its own: one invocation of a Task whose resources and
   env range over every shape, with requests of every shape *)

BuilderKey == <<default_namespace, "echo">>

Quantities == [cpu : {None, Some("500m")}, memory : {None, Some("64Mi")}]
QuantitiesOfRequests == [cpu : {None, Some("250m")}, memory : {None, Some("32Mi")}]

EnvPairs == {TaskEnvVar("LAMBDA_HANDLER", "x"), TaskEnvVar("A", "1"),
             TaskEnvVar("A", "2")}

EnvLists == UNION {[1..n -> EnvPairs] : n \in 0..MaxEnvLen}

BuilderSpecs ==
    {TaskSpec("busybox", default_pull_policy, TaskResources(l, r), env,
              default_handler, default_timeout) :
        l \in Quantities, r \in QuantitiesOfRequests, env \in EnvLists}

BuilderKwargs == {JNull, JNum(12), JObj(<< <<"x", JNum(1)>>, <<"y", JNull>> >>)}

BuilderRequests ==
    {InvokeRequest(kw, id) : kw \in BuilderKwargs, id \in {None, Some("req-1")}}

InitBuilder ==
    /\ \E spec \in BuilderSpecs :
         tasks = [k \in Keys |-> IF k = BuilderKey
                                 THEN Some(Task(k[1], k[2], spec)) ELSE None]
    /\ jobs = {}
    /\ now = StartTime
    /\ reqs = [i \in Slots |-> IdleReq]
    /\ queue = [k \in Keys |-> "none"]
    /\ requeue_after = [k \in Keys |-> None]
    /\ outcome = [k \in Keys |-> "none"]

NextBuilder ==
    \/ \E rq \in BuilderRequests : invoke_task(1, BuilderKey[1], BuilderKey[2], rq)
    \/ create_job_for_task(1)
    \/ invoke_task_respond(1)

SpecBuilder == InitBuilder /\ [][NextBuilder]_vars

----------------------------------------------------------------------------
(* The controller under the fairness of its scheduler: a Task that is queued is
   reconciled, and a requested requeue comes due *)

Fairness ==
    \A k \in Keys : WF_vars(Reconcile(k)) /\ WF_vars(RequeueDue(k))

FairSpec == Spec /\ Fairness

----------------------------------------------------------------------------
(* What the claims speak of *)

Returned(i) == reqs[i].pc = "done"
Invoke(i) == reqs[i].op = "invoke"
Result(i) == Unwrap(reqs[i].result)
Failed(i) == Returned(i) /\ ~Result(i).ok
Accepted(i) == Invoke(i) /\ Returned(i) /\ Result(i).ok
ErrorOf(i) == Unwrap(Result(i).error)
ResponseOf(i) == Result(i).value

(* The HTTP status of what the handler returned *)
HttpStatus(i) == IF Result(i).ok THEN 200 ELSE into_response(ErrorOf(i)).status

GotAbsent(i) == IsSome(reqs[i].got) /\ Unwrap(reqs[i].got) = Err(ApiNotFound)
GotRejected(i) == IsSome(reqs[i].got) /\ Unwrap(reqs[i].got) = Err(ApiRejected)
GotTask(i) == IsSome(reqs[i].got) /\ Unwrap(reqs[i].got).ok

CreateAnswered(i) == IsSome(reqs[i].created)
CreateOk(i) == CreateAnswered(i) /\ Unwrap(reqs[i].created).ok
CreateFailed(i) == CreateAnswered(i) /\ ~Unwrap(reqs[i].created).ok
CreateRejected(i) == CreateAnswered(i) /\ Unwrap(reqs[i].created) = Err(ApiRejected)

Built(i) == IsSome(reqs[i].job)
JobOf(i) == Unwrap(reqs[i].job)
JobNameOf(i) == Unwrap(JobOf(i).metadata.name)
ContainerOf(i) == Unwrap(Unwrap(JobOf(i).spec).template.spec).containers[1]
EnvOf(i) == Unwrap(ContainerOf(i).env)
LabelsOf(i) == Unwrap(JobOf(i).metadata.labels)
HasRequestId(i) == IsSome(reqs[i].request.request_id)

(* C1: an invoke of a Task that is absent from the store fails with
   TaskNotFound (404), has not called the create primitive, and has added no
   execution unit: the units that exist are exactly those of the invocations
   whose create succeeded *)
C1_AbsentTaskNotFound ==
    /\ \A i \in Slots :
         (Invoke(i) /\ GotAbsent(i)) =>
            /\ Returned(i)
            /\ Result(i) = Err(TaskNotFound(reqs[i].task_name))
            /\ HttpStatus(i) = 404
            /\ reqs[i].create_calls = 0
            /\ ~Built(i)
            /\ ~CreateAnswered(i)
    /\ jobs = {JobOf(j) : j \in {s \in Slots : CreateOk(s)}}

C1_Witness ==
    \E i, j \in Slots :
        /\ Invoke(i) /\ GotAbsent(i) /\ Returned(i)
        /\ Accepted(j) /\ reqs[j].namespace # reqs[i].namespace
        /\ jobs # {}

(* C2: get_task returns the Task when the store holds it, and fails with
   TaskNotFound (404) when it is absent *)
C2_GetTaskNotFound ==
    \A i \in Slots :
        (reqs[i].op = "get_task" /\ Returned(i)) =>
            /\ GotTask(i) => /\ Result(i).ok
                             /\ ResponseOf(i) = Unwrap(reqs[i].got).value
                             /\ HttpStatus(i) = 200
            /\ GotAbsent(i) => /\ ~Result(i).ok
                               /\ ErrorOf(i).kind = "TaskNotFound"
                               /\ HttpStatus(i) = 404

(* C3: an accepted invocation answers with the request id of its request when
   it has one, and otherwise with a non-empty one that no other accepted
   invocation without a request id answers with *)
C3_RequestId ==
    \A i \in Slots :
        Accepted(i) =>
            /\ HasRequestId(i) =>
                 ResponseOf(i).request_id = Unwrap(reqs[i].request.request_id)
            /\ ~HasRequestId(i) =>
                 /\ ResponseOf(i).request_id # ""
                 /\ \A j \in Slots \ {i} :
                        (Accepted(j) /\ ~HasRequestId(j)) =>
                            ResponseOf(j).request_id # ResponseOf(i).request_id

C3_Witness ==
    \E i, j \in Slots :
        /\ i # j
        /\ Accepted(i) /\ ~HasRequestId(i)
        /\ Accepted(j) /\ ~HasRequestId(j)
        /\ reqs[i].namespace = reqs[j].namespace

SameTask(i, j) ==
    /\ reqs[i].namespace = reqs[j].namespace
    /\ reqs[i].task_name = reqs[j].task_name

(* Two invocations of one Task whose creates have both been answered *)
BothSubmitted(i, j) ==
    /\ i # j
    /\ Invoke(i) /\ Invoke(j)
    /\ SameTask(i, j)
    /\ CreateAnswered(i) /\ CreateAnswered(j)

(* C4, as stated: two invocations of one Task name their manifests
   differently when built in different seconds; built in the same second, both
   manifests have the name "<taskName>-<seconds>", exactly one create succeeds,
   and the other is returned as an error *)
C4_ExactlyOneCreated ==
    \A i, j \in Slots :
        BothSubmitted(i, j) =>
            /\ reqs[i].ts # reqs[j].ts => JobNameOf(i) # JobNameOf(j)
            /\ reqs[i].ts = reqs[j].ts =>
                 /\ JobNameOf(i) = JobNameOf(j)
                 /\ JobNameOf(i) = reqs[i].task_name \o "-" \o Dec(Unwrap(reqs[i].ts))
                 /\ CreateOk(i) # CreateOk(j)
                 /\ \A s \in {i, j} : CreateFailed(s) => (Failed(s) /\ ~Accepted(s))

(* The invocations of the Task of i built in the second of i whose creates
   have been answered *)
SameSecond(i) ==
    {j \in Slots : /\ Invoke(j) /\ SameTask(i, j) /\ CreateAnswered(j)
                   /\ reqs[j].ts = reqs[i].ts}

(* C4, amended: as above, but in the same second at most one create succeeds:
   exactly one among all the invocations of the Task in that second when the
   cluster rejects none of their creates for a reason other than the name;
   every create that fails is returned as an error (500), never as
   "accepted" *)
C4_AtMostOneCreated ==
    /\ \A i, j \in Slots :
         BothSubmitted(i, j) =>
            /\ reqs[i].ts # reqs[j].ts => JobNameOf(i) # JobNameOf(j)
            /\ reqs[i].ts = reqs[j].ts =>
                 /\ JobNameOf(i) = JobNameOf(j)
                 /\ JobNameOf(i) = reqs[i].task_name \o "-" \o Dec(Unwrap(reqs[i].ts))
                 /\ ~(CreateOk(i) /\ CreateOk(j))
    /\ \A i \in Slots :
         (Invoke(i) /\ CreateAnswered(i)) =>
            /\ (\A j \in SameSecond(i) : ~CreateRejected(j)) =>
                    Cardinality({j \in SameSecond(i) : CreateOk(j)}) = 1
            /\ CreateFailed(i) =>
                    (Failed(i) /\ ~Accepted(i) /\ HttpStatus(i) = 500)

(* The collision: same Task, same second, one created, the other refused for
   its name and returned as an error *)
C4_Witness ==
    \E i, j \in Slots :
        /\ BothSubmitted(i, j)
        /\ reqs[i].ts = reqs[j].ts
        /\ CreateOk(i) /\ Accepted(i)
        /\ Unwrap(reqs[j].created) = Err(ApiAlreadyExists)
        /\ Failed(j)

(* Different seconds: both creates succeed *)
C4_BothCreated ==
    \E i, j \in Slots :
        /\ BothSubmitted(i, j)
        /\ reqs[i].ts # reqs[j].ts
        /\ Accepted(i) /\ Accepted(j)
        /\ Cardinality(jobs) = 2

(* C5: an invocation calls the create primitive at most once; a create that
   fails ends the invocation with the cluster's error (500) and no "accepted"
   response; after a create that succeeds the response names the execution
   unit that was created *)
C5_NoRetry ==
    \A i \in Slots :
        /\ reqs[i].create_calls <= 1
        /\ CreateAnswered(i) => (reqs[i].create_calls = 1 /\ Returned(i))
        /\ CreateFailed(i) =>
              /\ Result(i) = Err(KubeError(Unwrap(Unwrap(reqs[i].created).error)))
              /\ HttpStatus(i) = 500
              /\ ~Accepted(i)
        /\ CreateOk(i) =>
              /\ Accepted(i)
              /\ ResponseOf(i).status = "accepted"
              /\ \E j \in jobs :
                    /\ j = Unwrap(reqs[i].created).value
                    /\ j.metadata.name = Some(ResponseOf(i).job_name)
                    /\ j.metadata.namespace = Some(ResponseOf(i).namespace)

C5_Witness ==
    \E i, j \in Slots :
        /\ CreateFailed(i) /\ Returned(i) /\ reqs[i].create_calls = 1
        /\ CreateOk(j) /\ Accepted(j)

(* C9: invoke fails with TaskNotFound only when the Task is absent; a get the
   store rejects for another reason fails with the cluster's error (500) *)
C9_RejectedGetIsNot404 ==
    \A i \in Slots :
        (Invoke(i) /\ Failed(i)) =>
            /\ ErrorOf(i).kind = "TaskNotFound" => GotAbsent(i)
            /\ GotRejected(i) => (ErrorOf(i).kind = "KubeError" /\ HttpStatus(i) = 500)

(* C10: the request id an accepted invocation answers with is the one its
   execution unit carries, in the request-id label and in LAMBDA_REQUEST_ID *)
C10_ResponseIdIsJobId ==
    \A i \in Slots :
        Accepted(i) =>
            /\ LabelsOf(i)["request-id"] = ResponseOf(i).request_id
            /\ EnvOf(i)[3] = EnvVar("LAMBDA_REQUEST_ID", ResponseOf(i).request_id)

(* A step that takes the Task of key k, still in the store, out of the queue:
   its reconcile *)
ReconcileStep(k) ==
    /\ queue[k] = "queued"
    /\ queue'[k] # "queued"
    /\ IsSome(tasks'[k])

(* C6: a reconcile changes no Task (status included) and no execution unit and
   always ends in a requeue, of 300 seconds after a success and of 60 seconds
   after the error policy; so a Task that stays in the store is reconciled
   again and again, forever *)
C6_RequeuedForever ==
    /\ [][\A k \in Keys :
            ReconcileStep(k) =>
                /\ tasks' = tasks
                /\ jobs' = jobs
                /\ queue'[k] = "waiting"
                /\ \/ outcome'[k] = "ok" /\ requeue_after'[k] = Some(300)
                   \/ outcome'[k] = "err" /\ requeue_after'[k] = Some(60)]_vars
    /\ \A k \in Keys :
            \/ []<>(tasks[k] = None)
            \/ []<><<ReconcileStep(k)>>_vars

C6_Witness ==
    \E k \in Keys :
        /\ IsSome(tasks[k]) /\ Unwrap(tasks[k]).status = None
        /\ queue[k] = "waiting"
        /\ requeue_after[k] = Some(300)
        /\ \E j \in jobs : j.metadata.namespace = Some(k[1])

(* The text serde_json writes for the payloads of the model *)
KwargsText(kwargs) ==
    CASE kwargs.tag = "null" -> "null"
      [] kwargs.tag = "num" /\ kwargs.num = 12 -> "12"
      [] kwargs.tag = "num" /\ kwargs.num = 1 -> "1"
      [] kwargs.tag = "obj" /\ Len(kwargs.members) = 1 -> "{\"x\":1}"
      [] kwargs.tag = "obj" /\ Len(kwargs.members) = 2 -> "{\"x\":1,\"y\":null}"

(* C7: a built execution unit has 4 + len(task.env) environment entries: the
   handler, the task name, the resolved request id and the kwargs text, in this
   order, then every entry of task.env in its order, duplicates kept *)
C7_EnvEntries ==
    \A i \in Slots :
        Built(i) =>
            LET task == Unwrap(reqs[i].task)
                env == EnvOf(i)
                declared == task.spec.env
            IN  /\ Len(env) = 4 + Len(declared)
                /\ env[1] = [name |-> "LAMBDA_HANDLER", value |-> Some(task.spec.handler)]
                /\ env[2] = [name |-> "LAMBDA_TASK_NAME", value |-> Some(reqs[i].task_name)]
                /\ env[3].name = "LAMBDA_REQUEST_ID"
                /\ IsSome(env[3].value)
                /\ HasRequestId(i) => env[3].value = reqs[i].request.request_id
                /\ env[4] = [name |-> "LAMBDA_KWARGS",
                             value |-> Some(KwargsText(reqs[i].request.kwargs))]
                /\ \A n \in 1..Len(declared) :
                        env[4 + n] = [name |-> declared[n].name,
                                      value |-> Some(declared[n].value)]

C7_Witness ==
    \E i \in Slots :
        /\ Built(i)
        /\ Unwrap(reqs[i].task).spec.env =
              <<TaskEnvVar("A", "1"), TaskEnvVar("LAMBDA_HANDLER", "x"),
                TaskEnvVar("A", "2")>>
        /\ Len(EnvOf(i)) = 7
        /\ CreateOk(i)

Fields == {"cpu", "memory"}

(* The fields a ResourceList of the Task sets *)
Present(list) == {f \in Fields : IsSome(list[f])}

(* A group of the manifest holds exactly the fields the Task sets, with their
   values, and is omitted when the Task sets none *)
GroupMatches(group, list) ==
    IF Present(list) = {}
    THEN group = None
    ELSE /\ IsSome(group)
         /\ DOMAIN Unwrap(group) = Present(list)
         /\ \A f \in Present(list) : Unwrap(group)[f] = Unwrap(list[f])

(* C8: the resource requirements of a built execution unit hold exactly the
   fields the Task sets, unchanged; they are absent, not empty, exactly when
   the Task sets none of the four, and a group without fields is omitted *)
C8_Resources ==
    \A i \in Slots :
        Built(i) =>
            LET declared == Unwrap(reqs[i].task).spec.resources
                built == ContainerOf(i).resources
            IN  /\ (built = None) <=>
                       (Present(declared.limits) = {} /\ Present(declared.requests) = {})
                /\ IsSome(built) =>
                       /\ GroupMatches(Unwrap(built).limits, declared.limits)
                       /\ GroupMatches(Unwrap(built).requests, declared.requests)

C8_Witness ==
    \E i \in Slots :
        /\ Built(i)
        /\ Present(Unwrap(reqs[i].task).spec.resources.limits) = {"memory"}
        /\ Present(Unwrap(reqs[i].task).spec.resources.requests) = {}
        /\ IsSome(ContainerOf(i).resources)
        /\ Unwrap(ContainerOf(i).resources).requests = None
        /\ CreateOk(i)

====
